---- MODULE Spec2Model ----
(***************************************************************************)
(* RAGAS evaluation microservice (ragas-service/app.py).                   *)
(*                                                                         *)
(* Two views of the service are specified:                                 *)
(*   Spec        the data path of one request, from its arrival to its     *)
(*               response: validation, the offloaded _run_evaluation_sync, *)
(*               the result shaping of both endpoints, and /health;        *)
(*   SpecConfig  the same path under every configuration of the process;   *)
(*   SpecPool    concurrent requests over the ThreadPoolExecutor           *)
(*               (FairPool adds the scheduling fairness of the pool).      *)
(***************************************************************************)
EXTENDS Integers, Sequences, FiniteSets, TLC

VARIABLES
    LLM_PROVIDER,    \* os.getenv("RAGAS_LLM_PROVIDER", "ollama")
    OPENAI_API_KEY,  \* os.getenv("OPENAI_API_KEY", "")
    OLLAMA_MODEL,    \* os.getenv("OLLAMA_MODEL", "llama3.2")
    request,         \* the request the data path is serving
    pc,              \* position of its handler: idle / offloaded / returned / responded
    llm,             \* the client get_llm() built for it
    evalMetrics,     \* the metric instances handed to the library's evaluate
    evaluateCalls,   \* calls of the library's evaluate made for it
    result_df,       \* the table the library's evaluate returned for it
    submits,         \* run_in_executor submissions made for it
    outcome,         \* what _run_evaluation_sync returned or raised
    response,        \* the HTTP response of the request
    health,          \* the last GET /health response
    status,          \* SpecPool: per request, where it is
    work_queue,      \* SpecPool: executor._work_queue
    worker,          \* SpecPool: per pool thread, the request it runs (0: idle)
    backendUp        \* SpecPool: whether the LLM backend is reachable

cfgVars  == <<LLM_PROVIDER, OPENAI_API_KEY, OLLAMA_MODEL>>
dataVars == <<request, pc, llm, evalMetrics, evaluateCalls, result_df, submits, outcome,
             response>>
poolVars == <<status, work_queue, worker, backendUp>>
vars     == <<cfgVars, dataVars, poolVars, health>>

-----------------------------------------------------------------------------
(* Python values that travel through the score tables.  A float is kept as  *)
(* the fraction n/d so that a mean is exact.                                *)

Float(n, d) == [t |-> "float", n |-> n, d |-> d]
NaN         == [t |-> "nan",   n |-> 0, d |-> 1]
PosInf      == [t |-> "inf",   n |-> 0, d |-> 1]
NegInf      == [t |-> "-inf",  n |-> 0, d |-> 1]
None        == [t |-> "None",  n |-> 0, d |-> 1]
Str         == [t |-> "str",   n |-> 0, d |-> 1]
PyList      == [t |-> "list",  n |-> 0, d |-> 1]

\* isinstance(v, (int, float)): NaN and the infinities are floats
IsNumber(v) == v.t \in {"float", "nan", "inf", "-inf"}

EmptyDict == [k \in {} |-> None]

DictPut(d, k, v) == [x \in (DOMAIN d) \cup {k} |-> IF x = k THEN v ELSE d[x]]

Range(s) == {s[i] : i \in DOMAIN s}

-----------------------------------------------------------------------------
(* Configuration and the LLM client selector                                *)

HostedModel == "gpt-4o-mini"

get_llm ==
    IF LLM_PROVIDER = "openai" /\ OPENAI_API_KEY # ""
    THEN [cls |-> "ChatOpenAI", model |-> HostedModel]
    ELSE [cls |-> "ChatOllama", model |-> OLLAMA_MODEL]

NoLLM == [cls |-> "", model |-> ""]

-----------------------------------------------------------------------------
(* Metric catalog and factory                                               *)

AVAILABLE_METRICS ==
    [faithfulness      |-> "Faithfulness",
     answer_relevancy  |-> "ResponseRelevancy",
     context_precision |-> "LLMContextPrecisionWithoutReference",
     context_recall    |-> "LLMContextRecall"]

\* for name in metric_names: if name in AVAILABLE_METRICS: metrics.append(cls(llm=llm))
get_metrics(metric_names, l) ==
    LET known == SelectSeq(metric_names, LAMBDA nm : nm \in DOMAIN AVAILABLE_METRICS)
    IN  [i \in 1..Len(known) |-> [cls |-> AVAILABLE_METRICS[known[i]], llm |-> l]]

-----------------------------------------------------------------------------
(* NaN-safe serialization helpers                                           *)

\* mutant: the isinf test is forgotten
clean_float_nan_only(value) ==
    IF value.t = "None" THEN None
    ELSE IF IsNumber(value) /\ value.t = "nan" THEN None
    ELSE value

clean_float(value) ==
    IF value.t = "None" THEN None
    ELSE IF IsNumber(value) /\ value.t \in {"nan", "inf", "-inf"} THEN None
    ELSE value

clean_dict(d) ==
    [k \in DOMAIN d |-> IF IsNumber(d[k]) THEN clean_float(d[k]) ELSE d[k]]

-----------------------------------------------------------------------------
(* The evaluation library, as app.py uses it.  Its scoring is not modelled: *)
(* every score it may hand back (a finite score, NaN, +-Infinity) is a      *)
(* choice of the environment.                                               *)

\* the column under which the library reports a metric class (its `name`)
MetricName(cls) ==
    CASE cls = "Faithfulness"      -> "faithfulness"
      [] cls = "ResponseRelevancy" -> "answer_relevancy"
      [] cls = "LLMContextPrecisionWithoutReference"
                                   -> "llm_context_precision_without_reference"
      [] cls = "LLMContextRecall"  -> "context_recall"

\* scores the library can report for one metric on one sample
FiniteScores == {Float(0, 1), Float(1, 1)}
ScoreValues  == FiniteScores \cup {NaN, PosInf, NegInf}

\* mutant: the append sits inside the ground-truth branch
build_eval_samples_in_branch(samples) ==
    LET kept == SelectSeq(samples, LAMBDA s : s.ground_truth)
    IN  [i \in 1..Len(kept) |->
            [user_input |-> Str, response |-> Str, retrieved_contexts |-> PyList,
             reference |-> Str]]

\* for s in samples: SingleTurnSample(...); reference only with a ground truth
build_eval_samples(samples) ==
    [i \in 1..Len(samples) |->
        [user_input |-> Str, response |-> Str, retrieved_contexts |-> PyList,
         reference |-> IF samples[i].ground_truth THEN Str ELSE None]]

\* columns of EvaluationDataset.to_pandas(): the fields some sample sets
DatasetColumns(eval_samples) ==
    <<"user_input", "retrieved_contexts", "response">>
    \o (IF \E i \in DOMAIN eval_samples : eval_samples[i].reference.t # "None"
        THEN <<"reference">> ELSE <<>>)

RECURSIVE Dedup(_)
Dedup(s) ==
    IF s = <<>> THEN <<>>
    ELSE LET r == Dedup(SubSeq(s, 1, Len(s) - 1))
         IN  IF s[Len(s)] \in Range(r) THEN r ELSE Append(r, s[Len(s)])

MetricColumns(metrics) == Dedup([i \in 1..Len(metrics) |-> MetricName(metrics[i].cls)])

\* result.to_pandas(): one row per dataset sample, dataset columns then scores;
\* a missing cell of the dataset part is NaN
ResultFrame(eval_samples, metrics, scores) ==
    LET dcols == DatasetColumns(eval_samples)
        mcols == MetricColumns(metrics)
    IN  [columns |-> dcols \o mcols,
         rows    |-> [i \in 1..Len(eval_samples) |->
                        [c \in Range(dcols) \cup Range(mcols) |->
                            IF c \in Range(mcols) THEN scores[i][c]
                            ELSE IF eval_samples[i][c].t = "None" THEN NaN
                            ELSE eval_samples[i][c]]]]

NoFrame == [columns |-> <<>>, rows |-> <<>>]

RatAdd(a, b) == Float(a.n * b.d + b.n * a.d, a.d * b.d)

\* sum(vals); the exact sum does not depend on the order of the additions, and
\* halving keeps the evaluation shallow for a column of a full batch
RECURSIVE PySum(_)
PySum(vals) ==
    IF vals = <<>> THEN Float(0, 1)
    ELSE IF Len(vals) = 1 THEN RatAdd(Float(0, 1), vals[1])
    ELSE LET h == Len(vals) \div 2
         IN  RatAdd(PySum(SubSeq(vals, 1, h)), PySum(SubSeq(vals, h + 1, Len(vals))))

PyMean(vals) == LET s == PySum(vals) IN Float(s.n, s.d * Len(vals))

TypeError == [t |-> "TypeError", n |-> 0, d |-> 1]

\* pandas Series.mean(): skips NaN; a text column cannot be averaged
series_mean(vals) ==
    IF \E i \in DOMAIN vals : vals[i].t \in {"str", "list"} THEN TypeError
    ELSE LET kept == SelectSeq(vals, LAMBDA v : v.t # "nan")
             ts   == {kept[i].t : i \in DOMAIN kept}
         IN  IF kept = <<>> THEN NaN
             ELSE IF "inf" \in ts /\ "-inf" \in ts THEN NaN
             ELSE IF "inf" \in ts THEN PosInf
             ELSE IF "-inf" \in ts THEN NegInf
             ELSE PyMean(kept)

Column(df, name) == [i \in 1..Len(df.rows) |-> df.rows[i][name]]

-----------------------------------------------------------------------------
(* _run_evaluation_sync: what it returns or raises                          *)

NoOutcome == [kind |-> "none", msg |-> "", scores |-> <<>>, aggregate |-> EmptyDict]
Raise(msg) == [kind |-> "raise", msg |-> msg, scores |-> <<>>, aggregate |-> EmptyDict]
Return(scores, aggregate) ==
    [kind |-> "return", msg |-> "", scores |-> scores, aggregate |-> aggregate]

NoValidMetricsMsg == "No valid metrics specified"
NotIterableMsg    == "'NoneType' object is not iterable"
NotNumericMsg     == "Could not convert string to numeric"

\* for metric_name in metric_names: if metric_name in result_df.columns: ...
RECURSIVE aggregate_loop(_, _, _)
aggregate_loop(metric_names, df, aggregate) ==
    IF metric_names = <<>> THEN [raised |-> FALSE, aggregate |-> aggregate]
    ELSE LET metric_name == Head(metric_names)
         IN  IF metric_name \in Range(df.columns)
             THEN LET mean_val == series_mean(Column(df, metric_name))
                  IN  IF mean_val.t = "TypeError"
                      THEN [raised |-> TRUE, aggregate |-> aggregate]
                      ELSE aggregate_loop(Tail(metric_names), df,
                               DictPut(aggregate, metric_name, clean_float(mean_val)))
             ELSE aggregate_loop(Tail(metric_names), df, aggregate)

\* scores = [_clean_dict(record) for record in result_df.to_dict('records')]
records_of(df) == [i \in 1..Len(df.rows) |-> clean_dict(df.rows[i])]

\* the part of _run_evaluation_sync after the library's evaluate returned
shape_result(metric_names, df) ==
    LET scores == records_of(df)
        agg    == aggregate_loop(metric_names, df, EmptyDict)
    IN  IF agg.raised THEN Raise(NotNumericMsg) ELSE Return(scores, agg.aggregate)

-----------------------------------------------------------------------------
(* Responses                                                                *)

NoResponse ==
    [status |-> 0, detail |-> "", metrics |-> EmptyDict, overall_score |-> None,
     results |-> <<>>, aggregate |-> EmptyDict, total_samples |-> 0]

HTTPException(status_code, detail) ==
    [NoResponse EXCEPT !.status = status_code, !.detail = detail]

\* mutant: the restriction to the requested metrics is forgotten
valid_scores_any_key(scores, columns, metric_names) ==
    LET keys == SelectSeq(columns, LAMBDA k : k \in DOMAIN scores /\ IsNumber(scores[k]))
    IN  [i \in 1..Len(keys) |-> scores[keys[i]]]

\* [v for k, v in scores.items() if k in request.metrics and isinstance(v, (int, float))]
valid_scores(scores, columns, metric_names) ==
    LET keys == SelectSeq(columns, LAMBDA k : k \in DOMAIN scores
                                              /\ k \in Range(metric_names)
                                              /\ IsNumber(scores[k]))
    IN  [i \in 1..Len(keys) |-> scores[keys[i]]]

\* sum(valid_scores) / len(valid_scores) if valid_scores else None
overall_of(valid) == IF valid # <<>> THEN PyMean(valid) ELSE None

\* the key order of a record of the result table
KeyOrder == <<"user_input", "retrieved_contexts", "response", "reference",
              "faithfulness", "answer_relevancy",
              "llm_context_precision_without_reference", "context_recall">>

EvaluationResult(result, metric_names) ==
    LET scores == IF result.scores # <<>> THEN result.scores[1] ELSE EmptyDict
        valid  == valid_scores(scores, KeyOrder, metric_names)
    IN  [NoResponse EXCEPT !.status = 200, !.metrics = scores,
                           !.overall_score = overall_of(valid)]

\* valid_values = [v for v in aggregate.values() if v is not None]
valid_values(aggregate, metric_names) ==
    LET keys == SelectSeq(metric_names, LAMBDA k : k \in DOMAIN aggregate
                                                   /\ aggregate[k].t # "None")
    IN  [i \in 1..Len(keys) |-> aggregate[keys[i]]]

BatchEvaluationResult(result, samples, metric_names) ==
    LET aggregate == result.aggregate
        valid     == valid_values(aggregate, metric_names)
    IN  [NoResponse EXCEPT !.status = 200, !.results = result.scores,
                           !.aggregate = DictPut(aggregate, "overall", overall_of(valid)),
                           !.total_samples = Len(samples)]

-----------------------------------------------------------------------------
(* Bounds and inputs                                                        *)

MaxBatch    == 100   \* len(request.samples) > 100
MAX_WORKERS == 4     \* ThreadPoolExecutor(max_workers=4)

MaxRows     == 2     \* batch sizes 0..MaxRows are posted, beside those at the limit
MaxCells    == 4     \* tables up to this many scores get independent scores per row
MaxMetrics  == 2     \* length of a request's metrics list
MaxRequests == 5     \* SpecPool: requests posted

\* identifiers a request may name: three known ones, an unknown one, and an
\* unknown one that is also a column of the result table
RequestIds == {"faithfulness", "answer_relevancy", "context_precision", "bogus",
               "user_input"}

IsInjective(f) == \A i, j \in DOMAIN f : f[i] = f[j] => i = j

MetricLists ==
    {l \in UNION {[1..k -> RequestIds] : k \in 0..MaxMetrics} : IsInjective(l)}

\* metrics: Optional[List[str]]
MetricArgs ==
    {[none |-> TRUE, names |-> <<>>]} \cup {[none |-> FALSE, names |-> l] : l \in MetricLists}

Samples == [ground_truth : BOOLEAN]

\* sample lists: the sizes 0..MaxRows and those at the size limit; the samples of
\* one list all carry a ground truth or none does
SampleLists ==
    {[i \in 1..k |-> s] : k \in (0..MaxRows) \cup {MaxBatch, MaxBatch + 1}, s \in Samples}

SingleRequests ==
    {[endpoint |-> "single", samples |-> <<s>>, metrics |-> m] : s \in Samples, m \in MetricArgs}

BatchRequests ==
    {[endpoint |-> "batch", samples |-> l, metrics |-> m] : l \in SampleLists, m \in MetricArgs}

NoRequest == [endpoint |-> "", samples |-> <<>>, metrics |-> [none |-> TRUE, names |-> <<>>]]

\* messages of exceptions raised by the LLM clients or the library
ExcMessages == {"connection refused", "rate limit exceeded"}

\* score tables the library may produce for n samples under the columns mcols
ScoreTables(n, mcols) ==
    IF n * Len(mcols) <= MaxCells
    THEN [1..n -> [Range(mcols) -> ScoreValues]]
    ELSE {[i \in 1..n |-> r] : r \in [Range(mcols) -> ScoreValues]}

-----------------------------------------------------------------------------
(* The data path: one request at a time                                     *)

InitConfigDefault ==
    /\ LLM_PROVIDER = "ollama"
    /\ OPENAI_API_KEY = ""
    /\ OLLAMA_MODEL = "llama3.2"

InitData ==
    /\ request = NoRequest
    /\ pc = "idle"
    /\ llm = NoLLM
    /\ evalMetrics = <<>>
    /\ evaluateCalls = 0
    /\ submits = 0
    /\ outcome = NoOutcome
    /\ response = NoResponse
    /\ result_df = NoFrame

InitPoolIdle ==
    /\ status = [r \in 1..MaxRequests |-> "new"]
    /\ work_queue = <<>>
    /\ worker = [w \in 1..MAX_WORKERS |-> 0]
    /\ backendUp = TRUE

NoHealth == [status |-> 0, llm_provider |-> "", llm_model |-> "", available_metrics |-> <<>>]

\* loop.run_in_executor(executor, _run_evaluation_sync, samples, metric_names)
Offload(req) ==
    /\ request' = req
    /\ pc' = "offloaded"
    /\ submits' = 1
    /\ response' = NoResponse
    /\ llm' = NoLLM
    /\ evalMetrics' = <<>>
    /\ evaluateCalls' = 0
    /\ result_df' = NoFrame
    /\ outcome' = NoOutcome

Reject(req, status_code, detail) ==
    /\ request' = req
    /\ pc' = "responded"
    /\ submits' = 0
    /\ response' = HTTPException(status_code, detail)
    /\ llm' = NoLLM
    /\ evalMetrics' = <<>>
    /\ evaluateCalls' = 0
    /\ result_df' = NoFrame
    /\ outcome' = NoOutcome

\* POST /evaluate, up to the await
evaluate_single(req) ==
    /\ pc = "idle"
    /\ req.endpoint = "single"
    /\ Offload(req)
    /\ UNCHANGED <<cfgVars, poolVars, health>>

\* mutant: the size checks sit inside the try block, whose handler answers 500
evaluate_batch_checks_in_try(req) ==
    /\ pc = "idle"
    /\ req.endpoint = "batch"
    /\ IF Len(req.samples) > MaxBatch
       THEN Reject(req, 500, "Maximum 100 samples per batch")
       ELSE IF Len(req.samples) = 0
       THEN Reject(req, 500, "At least one sample required")
       ELSE Offload(req)
    /\ UNCHANGED <<cfgVars, poolVars, health>>

\* POST /evaluate/batch, up to the await
evaluate_batch(req) ==
    /\ pc = "idle"
    /\ req.endpoint = "batch"
    /\ IF Len(req.samples) > MaxBatch
       THEN Reject(req, 400, "Maximum 100 samples per batch")
       ELSE IF Len(req.samples) = 0
       THEN Reject(req, 400, "At least one sample required")
       ELSE Offload(req)
    /\ UNCHANGED <<cfgVars, poolVars, health>>

\* _run_evaluation_sync: building the LLM client, the samples, the dataset or
\* a metric instance raises
RunSyncBuildRaises(stage, msg) ==
    /\ pc = "offloaded"
    /\ stage = "metric" => (~request.metrics.none
                            /\ get_metrics(request.metrics.names, get_llm) # <<>>)
    /\ llm' = IF stage = "llm" THEN NoLLM ELSE get_llm
    /\ outcome' = Raise(msg)
    /\ pc' = "returned"
    /\ UNCHANGED <<request, evalMetrics, evaluateCalls, result_df, submits, response>>
    /\ UNCHANGED <<cfgVars, poolVars, health>>

\* _run_evaluation_sync: get_metrics leaves nothing to evaluate
RunSyncNoMetrics ==
    /\ pc = "offloaded"
    /\ \/ /\ request.metrics.none
          /\ outcome' = Raise(NotIterableMsg)
       \/ /\ ~request.metrics.none
          /\ get_metrics(request.metrics.names, get_llm) = <<>>
          /\ outcome' = Raise(NoValidMetricsMsg)
    /\ llm' = get_llm
    /\ pc' = "returned"
    /\ UNCHANGED <<request, evalMetrics, evaluateCalls, result_df, submits, response>>
    /\ UNCHANGED <<cfgVars, poolVars, health>>

\* _run_evaluation_sync: the library's evaluate raises
RunSyncEvaluateRaises(msg) ==
    /\ pc = "offloaded"
    /\ ~request.metrics.none
    /\ LET metrics == get_metrics(request.metrics.names, get_llm)
       IN  /\ metrics # <<>>
           /\ evalMetrics' = metrics
    /\ llm' = get_llm
    /\ evaluateCalls' = evaluateCalls + 1
    /\ outcome' = Raise(msg)
    /\ pc' = "returned"
    /\ UNCHANGED <<request, result_df, submits, response>>
    /\ UNCHANGED <<cfgVars, poolVars, health>>

\* _run_evaluation_sync: the library's evaluate returns a result
RunSyncEvaluateReturns ==
    /\ pc = "offloaded"
    /\ ~request.metrics.none
    /\ LET metrics      == get_metrics(request.metrics.names, get_llm)
           eval_samples == build_eval_samples(request.samples)
       IN  /\ metrics # <<>>
           /\ evalMetrics' = metrics
           /\ \E scores \in ScoreTables(Len(eval_samples), MetricColumns(metrics)) :
                 /\ result_df' = ResultFrame(eval_samples, metrics, scores)
                 /\ outcome' = shape_result(request.metrics.names, result_df')
    /\ llm' = get_llm
    /\ evaluateCalls' = evaluateCalls + 1
    /\ pc' = "returned"
    /\ UNCHANGED <<request, submits, response>>
    /\ UNCHANGED <<cfgVars, poolVars, health>>

\* mutant: the handler hides the exception's message
internal_error_generic(e) == HTTPException(500, "Internal Server Error")

\* except Exception as e: raise HTTPException(status_code=500, detail=str(e))
internal_error(e) == HTTPException(500, e.msg)

\* run_evaluation: hands the result on, logs and re-raises an exception
run_evaluation(o) == o

\* POST /evaluate, after the await
evaluate_single_resume ==
    /\ pc = "returned"
    /\ request.endpoint = "single"
    /\ LET result == run_evaluation(outcome)
       IN  response' = IF result.kind = "raise" THEN internal_error(result)
                       ELSE EvaluationResult(result, request.metrics.names)
    /\ pc' = "responded"
    /\ UNCHANGED <<request, llm, evalMetrics, evaluateCalls, result_df, submits, outcome>>
    /\ UNCHANGED <<cfgVars, poolVars, health>>

\* POST /evaluate/batch, after the await
evaluate_batch_resume ==
    /\ pc = "returned"
    /\ request.endpoint = "batch"
    /\ LET result == run_evaluation(outcome)
       IN  response' = IF result.kind = "raise" THEN internal_error(result)
                       ELSE BatchEvaluationResult(result, request.samples,
                                                  request.metrics.names)
    /\ pc' = "responded"
    /\ UNCHANGED <<request, llm, evalMetrics, evaluateCalls, result_df, submits, outcome>>
    /\ UNCHANGED <<cfgVars, poolVars, health>>

\* mutant: /health probes the LLM backend and reports its failure
health_check_probes_backend ==
    /\ health' = [status            |-> IF backendUp THEN 200 ELSE 503,
                  llm_provider      |-> LLM_PROVIDER,
                  llm_model         |-> IF LLM_PROVIDER = "ollama" THEN OLLAMA_MODEL
                                        ELSE HostedModel,
                  available_metrics |-> <<"faithfulness", "answer_relevancy",
                                          "context_precision", "context_recall">>]
    /\ UNCHANGED <<cfgVars, dataVars, poolVars>>

\* GET /health
health_check ==
    /\ health' = [status            |-> 200,
                  llm_provider      |-> LLM_PROVIDER,
                  llm_model         |-> IF LLM_PROVIDER = "ollama" THEN OLLAMA_MODEL
                                        ELSE HostedModel,
                  available_metrics |-> <<"faithfulness", "answer_relevancy",
                                          "context_precision", "context_recall">>]
    /\ UNCHANGED <<cfgVars, dataVars, poolVars>>

Init ==
    /\ InitConfigDefault
    /\ InitData
    /\ InitPoolIdle
    /\ health = NoHealth

Next ==
    \/ \E req \in SingleRequests : evaluate_single(req)
    \/ \E req \in BatchRequests : evaluate_batch(req)
    \/ \E stage \in {"llm", "dataset", "metric"}, msg \in ExcMessages :
          RunSyncBuildRaises(stage, msg)
    \/ RunSyncNoMetrics
    \/ \E msg \in ExcMessages : RunSyncEvaluateRaises(msg)
    \/ RunSyncEvaluateReturns
    \/ evaluate_single_resume
    \/ evaluate_batch_resume
    \/ health_check

Spec == Init /\ [][Next]_vars

-----------------------------------------------------------------------------
(* The same path under every configuration of the process                   *)

Providers     == {"ollama", "openai", "azure"}
ApiKeys       == {"", "sk-test"}
OllamaModels  == {"llama3.2", "mistral"}

\* requests posted under SpecConfig
ProbeRequests ==
    {[endpoint |-> "single", samples |-> <<s>>,
      metrics |-> [none |-> FALSE, names |-> <<"faithfulness">>]] : s \in Samples}

InitConfig ==
    /\ LLM_PROVIDER \in Providers
    /\ OPENAI_API_KEY \in ApiKeys
    /\ OLLAMA_MODEL \in OllamaModels
    /\ InitData
    /\ InitPoolIdle
    /\ health = NoHealth

NextConfig ==
    \/ \E req \in ProbeRequests : evaluate_single(req)
    \/ \E stage \in {"llm", "dataset", "metric"}, msg \in ExcMessages :
          RunSyncBuildRaises(stage, msg)
    \/ \E msg \in ExcMessages : RunSyncEvaluateRaises(msg)
    \/ RunSyncEvaluateReturns
    \/ evaluate_single_resume
    \/ health_check

SpecConfig == InitConfig /\ [][NextConfig]_vars

-----------------------------------------------------------------------------
(* Concurrent evaluate requests over the pool.  A request here is a POST     *)
(* /evaluate, or a POST /evaluate/batch of an accepted size: one that reaches *)
(* run_evaluation.  status: new -> queued -> running -> ended -> answered;   *)
(* a call ends by returning or by raising and its request is answered 200 or *)
(* 500 accordingly (the data path above says which).  A running call may     *)
(* instead be hung: its evaluate never returns.                              *)

Requests == 1..MaxRequests
Workers  == 1..MAX_WORKERS

\* mutant: a request that finds every worker busy is turned away
PostRejectsWhenBusy(r) ==
    /\ status[r] = "new"
    /\ r > 1 => status[r - 1] # "new"
    /\ IF \A w \in Workers : worker[w] # 0
       THEN /\ status' = [status EXCEPT ![r] = "answered"]
            /\ UNCHANGED work_queue
       ELSE /\ status' = [status EXCEPT ![r] = "queued"]
            /\ work_queue' = Append(work_queue, r)
    /\ UNCHANGED <<worker, backendUp>>
    /\ UNCHANGED <<cfgVars, dataVars, health>>

\* a handler runs up to its await: executor.submit puts the call on the queue
Post(r) ==
    /\ status[r] = "new"
    /\ r > 1 => status[r - 1] # "new"
    /\ status' = [status EXCEPT ![r] = "queued"]
    /\ work_queue' = Append(work_queue, r)
    /\ UNCHANGED <<worker, backendUp>>
    /\ UNCHANGED <<cfgVars, dataVars, health>>

\* an idle pool thread takes the oldest queued call and starts _run_evaluation_sync
\* (idle threads are interchangeable: the lowest-numbered one is taken to do it)
WorkerTake(w) ==
    /\ worker[w] = 0
    /\ \A v \in Workers : v < w => worker[v] # 0
    /\ work_queue # <<>>
    /\ worker' = [worker EXCEPT ![w] = Head(work_queue)]
    /\ status' = [status EXCEPT ![Head(work_queue)] = "running"]
    /\ work_queue' = Tail(work_queue)
    /\ UNCHANGED backendUp
    /\ UNCHANGED <<cfgVars, dataVars, health>>

\* mutant: the await is bounded by a timeout that gives the worker up
CallEndsOrTimesOut(w) ==
    /\ worker[w] # 0
    /\ status[worker[w]] \in {"running", "hung"}
    /\ status' = [status EXCEPT ![worker[w]] = "ended"]
    /\ worker' = [worker EXCEPT ![w] = 0]
    /\ UNCHANGED <<work_queue, backendUp>>
    /\ UNCHANGED <<cfgVars, dataVars, health>>

\* _run_evaluation_sync returns or raises: the thread is idle again.  Only a call
\* whose evaluate comes back ends; nothing else ends it
CallEnds(w) ==
    /\ worker[w] # 0
    /\ status[worker[w]] = "running"
    /\ status' = [status EXCEPT ![worker[w]] = "ended"]
    /\ worker' = [worker EXCEPT ![w] = 0]
    /\ UNCHANGED <<work_queue, backendUp>>
    /\ UNCHANGED <<cfgVars, dataVars, health>>

\* the library's evaluate blocks on a backend that never answers
CallHangs(w) ==
    /\ worker[w] # 0
    /\ status[worker[w]] = "running"
    /\ status' = [status EXCEPT ![worker[w]] = "hung"]
    /\ UNCHANGED <<work_queue, worker, backendUp>>
    /\ UNCHANGED <<cfgVars, dataVars, health>>

\* the handler resumes after its await and answers
Respond(r) ==
    /\ status[r] = "ended"
    /\ status' = [status EXCEPT ![r] = "answered"]
    /\ UNCHANGED <<work_queue, worker, backendUp>>
    /\ UNCHANGED <<cfgVars, dataVars, health>>

\* the LLM backend becomes unreachable, or reachable again
BackendFlips ==
    /\ backendUp' = ~backendUp
    /\ UNCHANGED <<status, work_queue, worker>>
    /\ UNCHANGED <<cfgVars, dataVars, health>>

NextCalls ==
    \/ \E r \in Requests : Post(r)
    \/ \E w \in Workers : WorkerTake(w)
    \/ \E w \in Workers : CallEnds(w)
    \/ \E w \in Workers : CallHangs(w)
    \/ \E r \in Requests : Respond(r)

NextPool ==
    \/ NextCalls
    \/ BackendFlips
    \/ health_check

SpecPool == Init /\ [][NextPool]_vars

\* the pool alone, with its scheduling: pool threads take queued calls, calls
\* that are not hung end, handlers resume
FairPool ==
    /\ Init
    /\ [][NextCalls]_vars
    /\ WF_vars(\E w \in Workers : WorkerTake(w))
    /\ \A w \in Workers : WF_vars(CallEnds(w))
    /\ WF_vars(\E r \in Requests : Respond(r))

-----------------------------------------------------------------------------
(* Claims on the data path                                                  *)

Responded == pc = "responded"

RatEq(a, b) == a.t = "float" /\ b.t = "float" /\ a.n * b.d = b.n * a.d

NonFinite(v) == v.t \in {"nan", "inf", "-inf"}

BadBatchSize(req) ==
    req.endpoint = "batch" /\ (Len(req.samples) = 0 \/ Len(req.samples) > MaxBatch)

\* C1: a batch of 0 or of more than 100 samples is answered 400 (never 500), and
\* nothing is evaluated for it: no submission to the pool, no call of evaluate.
C1_BadBatchRejected ==
    (pc # "idle" /\ BadBatchSize(request)) =>
        /\ pc = "responded"
        /\ response.status = 400
        /\ submits = 0
        /\ evaluateCalls = 0
        /\ llm = NoLLM
        /\ outcome = NoOutcome

C1_Witness ==
    /\ Responded
    /\ request.endpoint = "batch"
    /\ Len(request.samples) > MaxBatch
    /\ response.status = 400

\* the returned keys that are requested and carry a number
RequestedNumeric(metrics, names) ==
    {k \in DOMAIN metrics : k \in Range(names) /\ metrics[k].t = "float"}

RECURSIVE SetSum(_, _)
SetSum(metrics, K) ==
    IF K = {} THEN Float(0, 1)
    ELSE LET k == CHOOSE x \in K : TRUE
         IN  RatAdd(metrics[k], SetSum(metrics, K \ {k}))

SetMean(metrics, K) == LET t == SetSum(metrics, K) IN Float(t.n, t.d * Cardinality(K))

\* C2: the overall_score of a successful POST /evaluate is the mean of the returned
\* values of the requested metrics that are not null, and null when there is none;
\* with one requested metric it is that metric's returned value.
C2_OverallIsMean ==
    (Responded /\ request.endpoint = "single" /\ response.status = 200) =>
        LET names == request.metrics.names
            K     == RequestedNumeric(response.metrics, names)
        IN  /\ K = {} => response.overall_score = None
            /\ K # {} => RatEq(response.overall_score, SetMean(response.metrics, K))
            /\ Len(names) = 1 =>
                  IF names[1] \in DOMAIN response.metrics
                  THEN \/ response.overall_score = response.metrics[names[1]]
                       \/ RatEq(response.overall_score, response.metrics[names[1]])
                  ELSE response.overall_score = None

C2_Witness ==
    /\ Responded
    /\ request.endpoint = "single"
    /\ response.status = 200
    /\ Cardinality(RequestedNumeric(response.metrics, request.metrics.names)) = 2
    /\ RatEq(response.overall_score, Float(1, 2))

KnownNames(names) == SelectSeq(names, LAMBDA nm : nm \in DOMAIN AVAILABLE_METRICS)

\* C3: an unknown metric identifier beside a known one does not fail the request
\* (the library is called with the known metrics and its result is answered 200);
\* with no known identifier the request is answered 500 and evaluate is not called.
C3_UnknownExcluded ==
    (Responded /\ submits = 1) =>
        /\ (request.metrics.none \/ KnownNames(request.metrics.names) = <<>>) =>
              (response.status = 500 /\ evaluateCalls = 0)
        /\ (~request.metrics.none /\ KnownNames(request.metrics.names) # <<>>
             /\ result_df # NoFrame) =>
              /\ response.status = 200
              /\ Len(evalMetrics) = Len(KnownNames(request.metrics.names))

\* the score mappings of a response, for either endpoint
ResponseRows == IF request.endpoint = "single" THEN <<response.metrics>> ELSE response.results

\* C4: in a successful response no value is NaN or infinite; a NaN or infinite
\* score of the library is null in the response, a finite one is itself; and a
\* response other than 200 after the library returned is not due to a score.
C4_NonFiniteIsNull ==
    (Responded /\ result_df # NoFrame) =>
        /\ response.status = 200 =>
              /\ Len(ResponseRows) = Len(result_df.rows)
              /\ \A i \in DOMAIN result_df.rows : \A c \in DOMAIN result_df.rows[i] :
                    LET raw == result_df.rows[i][c]
                        out == ResponseRows[i][c]
                    IN  /\ ~NonFinite(out)
                        /\ NonFinite(raw) => out = None
                        /\ ~NonFinite(raw) => out = raw
              /\ \A k \in DOMAIN response.aggregate :
                    response.aggregate[k].t \in {"float", "None"}
        /\ response.status # 200 =>
              \E nm \in Range(request.metrics.names) :
                  /\ nm \in Range(result_df.columns)
                  /\ \E i \in DOMAIN result_df.rows : result_df.rows[i][nm].t \in {"str", "list"}

C4_Witness ==
    /\ Responded
    /\ request.endpoint = "batch"
    /\ response.status = 200
    /\ Len(result_df.rows) = 2
    /\ "faithfulness" \in Range(result_df.columns)
    /\ result_df.rows[1]["faithfulness"] = NaN
    /\ result_df.rows[2]["faithfulness"] = PosInf
    /\ response.results[1]["faithfulness"] = None
    /\ response.aggregate["faithfulness"] = None

\* C5: an exception of the offloaded evaluation is answered 500 with the
\* exception's message, and evaluate is called at most once for a request.
C5_FailureIs500Once ==
    /\ evaluateCalls <= 1
    /\ submits <= 1
    /\ (Responded /\ outcome.kind = "raise") =>
          (response.status = 500 /\ response.detail = outcome.msg)
    /\ (Responded /\ response.status = 500) => outcome.kind = "raise"

C5_Witness ==
    /\ Responded
    /\ request.endpoint = "batch"
    /\ outcome.kind = "raise"
    /\ evaluateCalls = 1
    /\ response.status = 500
    /\ response.detail = "connection refused"

\* C6: a successful batch response carries total_samples = N and N results.
C6_BatchCounts ==
    (Responded /\ request.endpoint = "batch" /\ response.status = 200) =>
        /\ Len(request.samples) \in 1..MaxBatch
        /\ response.total_samples = Len(request.samples)
        /\ Len(response.results) = Len(request.samples)

C6_Witness ==
    /\ Responded
    /\ request.endpoint = "batch"
    /\ response.status = 200
    /\ Len(request.samples) = MaxBatch
    /\ Len(response.results) = MaxBatch

\* C10: the llm_model that /health reports is the model of the client get_llm
\* builds for an evaluation: the hosted one exactly under provider "openai" with a key.
C10_HealthReportsSelectedModel ==
    (health.status = 200 /\ llm # NoLLM) =>
        /\ health.llm_model = llm.model
        /\ (llm.model = HostedModel) <=> (LLM_PROVIDER = "openai" /\ OPENAI_API_KEY # "")


-----------------------------------------------------------------------------
(* Claims on the pool                                                       *)

AllBusy == \A w \in Workers : worker[w] # 0
Busy    == {r \in Requests : status[r] \in {"running", "hung"}}
AnyHung == \E r \in Requests : status[r] = "hung"
AllHung == \A w \in Workers : worker[w] # 0 /\ status[worker[w]] = "hung"

HealthAnswer ==
    /\ health.status = 200
    /\ Len(health.available_metrics) = 4
    /\ Range(health.available_metrics) = DOMAIN AVAILABLE_METRICS

\* C7: GET /health can be served in every state, answers 200 with the four metric
\* keys whatever the backend and the pool are doing, and leaves the pool alone.
C7_HealthAlwaysAnswers ==
    /\ [](ENABLED health_check /\ (health # NoHealth => HealthAnswer))
    /\ [][health' # health => (HealthAnswer' /\ UNCHANGED poolVars)]_vars

C7_Witness == HealthAnswer /\ AllBusy /\ ~backendUp /\ work_queue # <<>>

C8_State ==
    /\ Cardinality(Busy) <= MAX_WORKERS
    /\ \A r \in Requests :
         Cardinality({w \in Workers : worker[w] = r}) = IF r \in Busy THEN 1 ELSE 0
    /\ \A r \in Requests : status[r] = "queued" <=> r \in Range(work_queue)
    /\ (work_queue # <<>> /\ ~AllBusy) => \E w \in Workers : ENABLED WorkerTake(w)
    /\ \A r \in Requests :
         (status[r] = "new" /\ (r > 1 => status[r - 1] # "new")) => ENABLED Post(r)

C8_Step ==
    \A r \in Requests :
        /\ (status[r] = "new" /\ status'[r] # "new") =>
              (status'[r] = "queued" /\ r \in Range(work_queue'))
        /\ status[r] = "queued" => status'[r] \in {"queued", "running"}
        /\ (status[r] = "queued" /\ status'[r] = "running") =>
              (~AllBusy /\ r = Head(work_queue))

\* C8: at most 4 evaluation calls run at a time, each on one worker of its own; a
\* request posted while every worker is busy is queued, never turned away or
\* dropped, and is started as soon as a worker is idle.
C8_PoolBoundedNoRejection == []C8_State /\ [][C8_Step]_vars

C8_Witness ==
    /\ AllBusy
    /\ Cardinality(Busy) = MAX_WORKERS
    /\ work_queue # <<>>
    /\ status[Head(work_queue)] = "queued"

C9_HungStep ==
    \A r \in Requests :
        status[r] = "hung" => (status'[r] = "hung" /\ \E w \in Workers : worker'[w] = r)

C9_AllHungStep ==
    AllHung => \A r \in Requests :
                  status[r] \in {"new", "queued"} => status'[r] \in {"new", "queued"}

\* C9: when no evaluation call hangs, every request that reached the pool is
\* answered (200 or 500); a hung call keeps its worker and is never answered; and
\* while all 4 workers hold hung calls no waiting request is started.
C9_NoTimeout ==
    /\ \A r \in Requests :
         (status[r] = "queued") ~> (status[r] = "answered" \/ AnyHung)
    /\ [][C9_HungStep /\ C9_AllHungStep]_vars

C9_Witness == AllHung /\ work_queue # <<>> /\ status[Head(work_queue)] = "queued"

====
